---------------------------- MODULE Spec2Model ----------------------------
(***************************************************************************)
(* A model of src/RunCalSequence.py: the Action classes (pre_condition,    *)
(* perform, post_condition wrapped by execute) and the RunCalSequence      *)
(* sequencer, running against the ktl keyword services kpfexpose, kpfmot   *)
(* and kpfpower.                                                           *)
(*                                                                         *)
(* Times on the detector side (EXPOSURE, waitFor timeouts) are counted in  *)
(* tenths of a second, so that the 0.1 s comparisons of the code are       *)
(* comparisons with 1.  WarmUp is in seconds (it is only slept).           *)
(*                                                                         *)
(* A Python string that is a comma-joined list is a sequence of tokens,    *)
(* the separator being the token ",".  Python's None is the value None; a  *)
(* key whose value is None behaves as an absent key in every args.get of   *)
(* the source, so entries simply leave the key out.                        *)
(***************************************************************************)
EXTENDS Integers, Sequences, FiniteSets, TLC

None == "None"

(***************************************************************************)
(* Bounds of the model.                                                    *)
(***************************************************************************)
MaxFiles == 2
MaxCount == 2

(***************************************************************************)
(* Program constants.  ExptimeTolerance is the 0.1 (s) of the comparisons  *)
(* with the exposure time; the timeouts are given in seconds in the code.  *)
(***************************************************************************)
Seconds(n) == 10 * n

ExptimeTolerance == 1

StartExposureTimeout == Seconds(300)

WaitForReadyTimeout == Seconds(60)

ReadoutMargin == Seconds(10)

(***************************************************************************)
(* dict.get(key, default)                                                  *)
(***************************************************************************)
Has(d, key) == key \in DOMAIN d

Get(d, key, default) == IF Has(d, key) THEN d[key] ELSE default

Range(s) == {s[n] : n \in DOMAIN s}

Abs(x) == IF x < 0 THEN -x ELSE x

(***************************************************************************)
(* str.join and str.split on token strings.                                *)
(***************************************************************************)
\* only the first element reaches the string
Join_first(list) == IF list = <<>> THEN <<>> ELSE <<list[1]>>

RECURSIVE Join(_)
Join(list) ==
    IF list = <<>> THEN <<>>
    ELSE IF Len(list) = 1 THEN <<list[1]>>
    ELSE <<list[1], ",">> \o Join(Tail(list))

RECURSIVE SplitFrom(_, _, _)
SplitFrom(s, cur, out) ==
    IF s = <<>> THEN Append(out, cur)
    ELSE IF Head(s) = "," THEN SplitFrom(Tail(s), <<>>, Append(out, cur))
    ELSE SplitFrom(Tail(s), Append(cur, Head(s)), out)

Split(s) == SplitFrom(s, <<>>, <<>>)

\* 'name' in s.split(',')
In(name, list) == <<name>> \in Range(list)

(***************************************************************************)
(* The flag tables of the three multi-select actions: <<entry key, name    *)
(* on the wire>> in the order in which perform appends them.               *)
(***************************************************************************)
TriggerFlags ==
    << <<"TriggerRed", "Red">>, <<"TriggerGreen", "Green">>,
       <<"TriggerCaHK", "Ca_HK">> >>

SSSFlags ==
    << <<"SSS_Science", "SciSelect">>, <<"SSS_Sky", "SkySelect">>,
       <<"SSS_SoCalSci", "SoCalSci">>, <<"SSS_SoCalCal", "SoCalCal">>,
       <<"SSS_CalSciSky", "Cal_SciSky">> >>

TSFlags ==
    << <<"TS_Scrambler", "Scrambler">>, <<"TS_SimulCal", "SimulCal">>,
       <<"TS_FF_Fiber", "FF_Fiber">>, <<"TS_CaHK", "Ca_HK">> >>

\* the list perform builds: the names whose flag `is True`, in table order
RECURSIVE FlagList(_, _)
FlagList(a, flags) ==
    IF flags = <<>> THEN <<>>
    ELSE (IF Get(a, Head(flags)[1], FALSE) = TRUE
            THEN <<Head(flags)[2]>> ELSE <<>>) \o FlagList(a, Tail(flags))

\* post_condition: every flag's target equals its membership in the read-back
FlagsMatch(a, flags, readback) ==
    \A n \in DOMAIN flags :
        Get(a, flags[n][1], FALSE) = In(flags[n][2], Split(readback))

(***************************************************************************)
(* PowerOnCalSource.ports / PowerOffCalSource.ports                        *)
(***************************************************************************)
\* the map with an outlet for LFCFiber
ports_LFC_outlet ==
    ("EtalonFiber" :> None) @@ ("BrdbandFiber" :> "OUTLET_CAL2_2") @@
    ("U_gold" :> "OUTLET_CAL2_7") @@ ("U_daily" :> "OUTLET_CAL2_8") @@
    ("Th_daily" :> "OUTLET_CAL2_6") @@ ("Th_gold" :> "OUTLET_CAL2_5") @@
    ("SoCal-CalFib" :> None) @@ ("LFCFiber" :> "OUTLET_CAL2_2")

ports ==
    ("EtalonFiber" :> None) @@ ("BrdbandFiber" :> "OUTLET_CAL2_2") @@
    ("U_gold" :> "OUTLET_CAL2_7") @@ ("U_daily" :> "OUTLET_CAL2_8") @@
    ("Th_daily" :> "OUTLET_CAL2_6") @@ ("Th_gold" :> "OUTLET_CAL2_5") @@
    ("SoCal-CalFib" :> None) @@ ("LFCFiber" :> None)

Outlets == {ports[l] : l \in DOMAIN ports} \ {None}

\* self.ports.get(args.get('lamp', None))
Port(a) ==
    LET l == Get(a, "lamp", None)
    IN  IF l \in DOMAIN ports THEN ports[l] ELSE None

DetectorState == {"Ready", "Start", "InProgress", "End", "Readout"}

Busy == DetectorState \ {"Ready"}

(***************************************************************************)
(* The sequence entries the runs are drawn from (the parsed YAML files).   *)
(***************************************************************************)
EntryA ==
    [OctagonSource |-> "U_gold", WarmUp |-> 30, Exptime |-> 10,
     ND1 |-> "OD 2.0", ND2 |-> "OD 0.1", nExp |-> 2,
     TriggerRed |-> TRUE, TriggerGreen |-> TRUE, TriggerCaHK |-> FALSE,
     SSS_Science |-> TRUE, SSS_Sky |-> TRUE, TS_Scrambler |-> TRUE]

EntryB ==
    [OctagonSource |-> "Th_daily", WarmUp |-> 45, Exptime |-> 0,
     ND2 |-> "OD 2.0", TriggerGreen |-> TRUE, TS_SimulCal |-> TRUE]

EntryC ==
    [OctagonSource |-> "EtalonFiber", WarmUp |-> 0, ND1 |-> "OD 0.1",
     SSS_CalSciSky |-> TRUE]

EmptyEntry == [x \in {} |-> None]

Entries == {EntryA, EntryB, EntryC}

\* an entry that sets the flags of T to True and the other flags of the
\* table to False (explicit) or leaves them out
FlagEntry(flags, T, explicit) ==
    [key \in {flags[n][1] : n \in {m \in DOMAIN flags : explicit \/ m \in T}} |->
        \E n \in T : flags[n][1] = key]

FlagEntries(flags) ==
    {FlagEntry(flags, T, explicit) : T \in SUBSET DOMAIN flags,
                                     explicit \in BOOLEAN}

\* args of a stand-alone execute of one Action
ActionEntries == Entries \cup {EmptyEntry}

LampArgs ==
    {[lamp |-> "U_gold"], [lamp |-> "EtalonFiber"], [lamp |-> "SoCal-CalFib"],
     [lamp |-> "LFCFiber"], [lamp |-> "Xe_arc"], EmptyEntry}

ChainActions_ND2First ==
    <<"SetCalSource", "SetSourceSelectShutters", "SetTimedShutters",
      "SetND2", "SetND1", "SetExptime", "WaitForReady",
      "SetTriggeredDetectors">>

\* the chain without its last step
ChainActions_no_trigger ==
    <<"SetCalSource", "SetSourceSelectShutters", "SetTimedShutters",
      "SetND1", "SetND2", "SetExptime", "WaitForReady">>

ChainActions ==
    <<"SetCalSource", "SetSourceSelectShutters", "SetTimedShutters",
      "SetND1", "SetND2", "SetExptime", "WaitForReady",
      "SetTriggeredDetectors">>

ExposureActions == <<"WaitForReady", "StartExposure", "WaitForReadout">>

EntryActions == Range(ChainActions) \cup Range(ExposureActions)

PowerActions == {"PowerOnCalSource", "PowerOffCalSource"}

SeqsUpTo(S, n) == UNION {[1..m -> S] : m \in 1..n}

VARIABLES
    call,        \* the execute invoked from outside: RunCalSequence or one Action
    args,        \* RunCalSequence's args: files, count, lampsoff, noexp
    site,        \* the statement the caller (RunCalSequence.execute) resumes at
    act,         \* the Action whose execute is running, or None
    ph,          \* the phase of that execute
    actargs,     \* the args that execute was called with
    pending,     \* the lamps the current `for lamp in lamps` has still to visit
    count, i, k, j,  \* loop variables of RunCalSequence.perform (k: step in the body)
    sequence,    \* the loop variable `sequence`
    slept,       \* the durations passed to sleep()
    error,       \* the exception that was raised, or None
    kpfexpose, kpfmot, kpfpower,   \* the keyword services
    timeout, waited, seen,         \* the waitFor in progress
    waitResult,  \* what the last waitFor of the running Action returned
    wlog,        \* the writes issued by the running Action, in order
    rlog,        \* the keywords read by the running Action, in order
    phases,      \* the phases the running execute has entered, in order
    log,         \* the Actions executed for the current entry, in order
    nStart,      \* the number of writes of Start to kpfexpose.EXPOSE
    powered      \* lamps for which PowerOnCalSource.execute was called, in order

seqvars == <<call, args, pending, count, i, k, j, sequence, slept, log, powered>>

devvars == <<kpfexpose, kpfmot, kpfpower>>

waitvars == <<timeout, waited, seen, waitResult>>

vars ==
    <<call, args, site, act, ph, actargs, pending, count, i, k, j, sequence,
      slept, error, kpfexpose, kpfmot, kpfpower, timeout, waited, seen,
      waitResult, wlog, rlog, phases, log, nStart, powered>>

\* sequences = [yaml.load(open(file)) for file in args.files]
sequences == [n \in DOMAIN args.files |-> args.files[n].content]

\* lamps = set([entry['OctagonSource'] for entry in sequences])
LampSet == {sequences[n].OctagonSource : n \in DOMAIN sequences}

RECURSIVE Max(_)
Max(S) ==
    LET x == CHOOSE y \in S : TRUE
    IN  IF S = {x} THEN x
        ELSE LET m == Max(S \ {x}) IN IF x > m THEN x ELSE m

NoError == [type |-> None, action |-> None]

(***************************************************************************)
(* The initial states: a call of RunCalSequence.execute(args), or of the   *)
(* execute of one Action on its own, with the instrument in some state.    *)
(***************************************************************************)
Files == [exists : BOOLEAN, content : Entries]

RunArgs ==
    [files : SeqsUpTo(Files, MaxFiles), count : 1..MaxCount,
     lampsoff : BOOLEAN, noexp : BOOLEAN]

NoArgs == [files |-> <<>>, count |-> 0, lampsoff |-> FALSE, noexp |-> FALSE]

\* the exposure times the device may hold at the start (tenths of a
\* second); a stand-alone StartExposure also meets 0.1 s and 0.2 s
InitExposure(c) == IF c = "StartExposure" THEN {0, 1, 2, 10} ELSE {0, 10}

InitDevice ==
    /\ kpfexpose \in
          [EXPOSE : DetectorState, EXPOSURE : InitExposure(call),
           TRIG_TARG : {<<"Red">>},
           SRC_SHUTTERS : {<<>>}, TIMED_SHUTTERS : {<<>>}]
    /\ kpfmot = [OCTAGON |-> "Home", ND1POS |-> "OD 0.1", ND2POS |-> "OD 0.1"]
    /\ \E on \in SUBSET {"OUTLET_CAL2_7"} :
          kpfpower = [p \in Outlets |->
                        [power |-> IF p \in on THEN "On" ELSE "Off",
                         LOCK |-> "Locked"]]

InitCommon ==
    /\ InitDevice
    /\ pending = {} /\ count = 0 /\ i = 0 /\ k = 0 /\ j = 0
    /\ slept = <<>> /\ error = NoError
    /\ timeout = 0 /\ waited = 0 /\ seen = FALSE /\ waitResult = None
    /\ wlog = <<>> /\ rlog = <<>> /\ log = <<>> /\ nStart = 0
    /\ powered = <<>>

InitRun ==
    /\ call = "RunCalSequence"
    /\ args \in RunArgs
    /\ site = "pre_condition"
    /\ act = None /\ ph = None /\ actargs = EmptyEntry
    /\ sequence = EmptyEntry
    /\ InitCommon
    /\ phases = <<>>

StandAloneArgs(a) ==
    CASE a \in PowerActions -> LampArgs
      [] a = "SetTriggeredDetectors" -> ActionEntries \cup FlagEntries(TriggerFlags)
      [] a = "SetSourceSelectShutters" -> ActionEntries \cup FlagEntries(SSSFlags)
      [] a = "SetTimedShutters" -> ActionEntries \cup FlagEntries(TSFlags)
      [] OTHER -> ActionEntries

\* site = "again": the caller executes the same Action on the same args a
\* second time when the first execute has returned
InitAction ==
    /\ call \in EntryActions \cup PowerActions
    /\ args = NoArgs
    /\ site \in {"done", "again"}
    /\ act = call /\ ph = "pre_condition"
    /\ actargs \in StandAloneArgs(call)
    /\ sequence = EmptyEntry
    /\ InitCommon
    /\ phases = <<"pre_condition">>

Init == InitRun \/ InitAction

(***************************************************************************)
(* The keyword services (ktl).  A write reaches the device, which applies  *)
(* it or leaves the keyword as it was; the detector leaves Ready when      *)
(* Start is written and walks through its cycle on its own.                *)
(***************************************************************************)
Stored(old, new) == {new, old}

NextDetectorState(s) ==
    CASE s = "Start" -> "InProgress"
      [] s = "InProgress" -> "End"
      [] s = "End" -> "Readout"
      [] s = "Readout" -> "Ready"
      [] OTHER -> s

Running == act # None \/ site \notin {"done", "repeated", "failed"}

\* the value waitFor waits for: '== 4' is Readout, '== 0' is Ready
WaitTarget(a) == IF a = "WaitForReadout" THEN "Readout" ELSE "Ready"

DetectorStep ==
    /\ Running
    /\ kpfexpose.EXPOSE \in Busy
    /\ kpfexpose' = [kpfexpose EXCEPT !.EXPOSE = NextDetectorState(@)]
    /\ seen' = (seen \/ (ph = "waitFor" /\ kpfexpose'.EXPOSE = WaitTarget(act)))
    /\ UNCHANGED <<seqvars, site, act, ph, actargs, error, kpfmot, kpfpower,
                   timeout, waited, waitResult, wlog, rlog, phases, nStart>>

\* the instants of a wait the model samples: its start, the last instant
\* before the timeout expires, and the expiry
Instants(t) == {0, t - 1, t}

(***************************************************************************)
(* execute: pre_condition, perform, post_condition.  An exception leaves   *)
(* execute and, no caller catching it, RunCalSequence.execute as well.     *)
(***************************************************************************)
Unwind_swallow(resume) == resume

\* a `finally` around the loops that still runs the power-off part
Unwind_finally(resume) ==
    IF resume \in {"pre_condition", "if_lampsoff", "for_lamp_off", "final",
                   "post_condition", "done", "again", "repeated"}
      THEN "failed" ELSE "if_lampsoff"

Unwind(resume) == "failed"

Enter(phase) == /\ ph' = phase
                /\ phases' = Append(phases, phase)
                /\ UNCHANGED <<act, site, error>>

Step(phase) == /\ ph' = phase
               /\ UNCHANGED <<act, site, error, phases>>

Return == /\ act' = None /\ ph' = None
          /\ UNCHANGED <<site, error, phases>>

Raise(type) == /\ act' = None /\ ph' = None
               /\ site' = Unwind(site)
               /\ error' = [type |-> type, action |-> act]
               /\ UNCHANGED phases

Call(a, av) ==
    /\ act' = a /\ ph' = "pre_condition" /\ actargs' = av
    /\ wlog' = <<>> /\ rlog' = <<>> /\ phases' = <<"pre_condition">>
    /\ timeout' = 0 /\ waited' = 0 /\ seen' = FALSE /\ waitResult' = None

Actions == EntryActions \cup PowerActions

\* execute going from pre_condition straight to post_condition
pre_condition_skip_perform ==
    /\ act \in Actions /\ ph = "pre_condition"
    /\ Enter("post_condition")
    /\ UNCHANGED <<seqvars, actargs, devvars, waitvars, wlog, rlog, nStart>>

\* every pre_condition of the module is `pass`
pre_condition ==
    /\ act \in Actions /\ ph = "pre_condition"
    /\ Enter("perform")
    /\ UNCHANGED <<seqvars, actargs, devvars, waitvars, wlog, rlog, nStart>>

(***************************************************************************)
(* Keyword.waitFor(expression, timeout): returns True when the monitored   *)
(* keyword satisfies the expression, False when the timeout expires.       *)
(***************************************************************************)
\* waitFor called without a timeout: no instant at which it gives up
WaitTimeout_none(a) == -1

WaitTimeout(a) ==
    CASE a = "StartExposure" -> StartExposureTimeout
      [] a = "WaitForReady" -> WaitForReadyTimeout
      [] a = "WaitForReadout" -> kpfexpose.EXPOSURE + ReadoutMargin

BeginWait(a) ==
    /\ timeout' = WaitTimeout(a)
    /\ waited' = 0
    /\ seen' = (kpfexpose.EXPOSE = WaitTarget(a))
    /\ UNCHANGED waitResult

AfterWait(a) == IF a = "StartExposure" THEN "write" ELSE "post_condition"

waitFor_tick ==
    /\ ph = "waitFor" /\ ~seen /\ waited < timeout
    /\ \E w \in Instants(timeout) : w > waited /\ waited' = w
    /\ UNCHANGED <<seqvars, site, act, ph, actargs, error, devvars, timeout,
                   seen, waitResult, wlog, rlog, phases, nStart>>

waitFor_return ==
    /\ ph = "waitFor"
    /\ seen \/ waited = timeout
    /\ waitResult' = IF seen THEN "True" ELSE "False"
    /\ IF AfterWait(act) = "post_condition"
         THEN Enter("post_condition")
         ELSE Step(AfterWait(act))
    /\ UNCHANGED <<seqvars, actargs, devvars, timeout, waited, seen, wlog,
                   rlog, nStart>>

(***************************************************************************)
(* SetExptime                                                              *)
(***************************************************************************)
SetExptime_perform ==
    /\ act = "SetExptime" /\ ph = "perform"
    /\ IF Has(actargs, "Exptime")
         THEN /\ \E v \in Stored(kpfexpose.EXPOSURE, actargs.Exptime) :
                    kpfexpose' = [kpfexpose EXCEPT !.EXPOSURE = v]
              /\ wlog' = Append(wlog, <<"kpfexpose", "EXPOSURE", actargs.Exptime>>)
         ELSE UNCHANGED <<kpfexpose, wlog>>
    /\ Enter("post_condition")
    /\ UNCHANGED <<seqvars, actargs, kpfmot, kpfpower, waitvars, rlog,
                   nStart>>

\* post_condition looks up the key 'exptime', perform the key 'Exptime'
SetExptime_post_condition ==
    /\ act = "SetExptime" /\ ph = "post_condition"
    /\ IF Has(actargs, "exptime")
           /\ Abs(kpfexpose.EXPOSURE - actargs.exptime) > ExptimeTolerance
         THEN Raise("KPFError")
         ELSE Return
    /\ rlog' = (IF Has(actargs, "exptime")
                THEN Append(rlog, <<"kpfexpose", "EXPOSURE">>) ELSE rlog)
    /\ UNCHANGED <<seqvars, actargs, devvars, waitvars, wlog, nStart>>

(***************************************************************************)
(* StartExposure                                                           *)
(***************************************************************************)
StartExposure_perform ==
    /\ act = "StartExposure" /\ ph = "perform"
    /\ IF kpfexpose.EXPOSE # "Ready"
         THEN Step("waitFor") /\ BeginWait(act)
         ELSE Step("write") /\ UNCHANGED waitvars
    /\ rlog' = Append(rlog, <<"kpfexpose", "EXPOSE">>)
    /\ UNCHANGED <<seqvars, actargs, devvars, wlog, nStart>>

StartExposure_write ==
    /\ act = "StartExposure" /\ ph = "write"
    /\ \E v \in Stored(kpfexpose.EXPOSE, "Start") :
           kpfexpose' = [kpfexpose EXCEPT !.EXPOSE = v]
    /\ wlog' = Append(wlog, <<"kpfexpose", "EXPOSE", "Start">>)
    /\ nStart' = nStart + 1
    /\ Enter("post_condition")
    /\ UNCHANGED <<seqvars, actargs, kpfmot, kpfpower, waitvars, rlog>>

\* the comparison with the exposure time as `>=`
StartExposure_post_condition_ge ==
    /\ act = "StartExposure" /\ ph = "post_condition"
    /\ IF kpfexpose.EXPOSURE >= ExptimeTolerance
           /\ kpfexpose.EXPOSE \notin {"Start", "InProgress", "End", "Readout"}
         THEN Raise("KPFError")
         ELSE Return
    /\ rlog' = rlog \o << <<"kpfexpose", "EXPOSURE">>, <<"kpfexpose", "EXPOSE">> >>
    /\ UNCHANGED <<seqvars, actargs, devvars, waitvars, wlog, nStart>>

StartExposure_post_condition ==
    /\ act = "StartExposure" /\ ph = "post_condition"
    /\ IF kpfexpose.EXPOSURE > ExptimeTolerance
           /\ kpfexpose.EXPOSE \notin {"Start", "InProgress", "End", "Readout"}
         THEN Raise("KPFError")
         ELSE Return
    /\ rlog' = rlog \o << <<"kpfexpose", "EXPOSURE">>, <<"kpfexpose", "EXPOSE">> >>
    /\ UNCHANGED <<seqvars, actargs, devvars, waitvars, wlog, nStart>>

(***************************************************************************)
(* WaitForReadout, WaitForReady                                            *)
(***************************************************************************)
WaitActions == {"WaitForReadout", "WaitForReady"}

Wait_perform(a) ==
    /\ act = a /\ ph = "perform"
    /\ Step("waitFor") /\ BeginWait(a)
    /\ rlog' = (IF a = "WaitForReadout"
                THEN Append(rlog, <<"kpfexpose", "EXPOSURE">>) ELSE rlog)
    /\ UNCHANGED <<seqvars, actargs, devvars, wlog, nStart>>

\* a post_condition that forces the detector state instead of failing
Wait_post_condition_force(a) ==
    /\ act = a /\ ph = "post_condition"
    /\ kpfexpose' = [kpfexpose EXCEPT !.EXPOSE = WaitTarget(a)]
    /\ wlog' = Append(wlog, <<"kpfexpose", "EXPOSE", WaitTarget(a)>>)
    /\ rlog' = Append(rlog, <<"kpfexpose", "EXPOSE">>)
    /\ Return
    /\ UNCHANGED <<seqvars, actargs, kpfmot, kpfpower, waitvars, nStart>>

Wait_post_condition(a) ==
    /\ act = a /\ ph = "post_condition"
    /\ IF kpfexpose.EXPOSE # WaitTarget(a)
         THEN Raise("KPFError")
         ELSE Return
    /\ rlog' = Append(rlog, <<"kpfexpose", "EXPOSE">>)
    /\ UNCHANGED <<seqvars, actargs, devvars, waitvars, wlog, nStart>>

(***************************************************************************)
(* PowerOnCalSource, PowerOffCalSource.  The read of <port>_NAME only      *)
(* feeds the log lines.                                                    *)
(***************************************************************************)
\* perform without the test `kpfpower[port].read() == 'On'`
PowerOnCalSource_perform_unconditional ==
    /\ act = "PowerOnCalSource" /\ ph = "perform"
    /\ LET port == Port(actargs)
       IN  IF port # None
             THEN /\ \E v \in Stored(kpfpower[port].power, "On") :
                        kpfpower' = [kpfpower EXCEPT
                                       ![port] = [power |-> v, LOCK |-> "Locked"]]
                  /\ wlog' = wlog \o << <<"kpfpower", <<port, "LOCK">>, "Unlocked">>,
                                        <<"kpfpower", port, "On">>,
                                        <<"kpfpower", <<port, "LOCK">>, "Locked">> >>
             ELSE UNCHANGED <<kpfpower, wlog>>
    /\ Enter("post_condition")
    /\ UNCHANGED <<seqvars, actargs, kpfexpose, kpfmot, waitvars, rlog, nStart>>

\* perform without the closing write of Locked
PowerOnCalSource_perform_no_relock ==
    /\ act = "PowerOnCalSource" /\ ph = "perform"
    /\ LET port == Port(actargs)
       IN  IF port # None /\ kpfpower[port].power # "On"
             THEN /\ \E v \in Stored(kpfpower[port].power, "On") :
                        kpfpower' = [kpfpower EXCEPT
                                       ![port] = [power |-> v, LOCK |-> "Unlocked"]]
                  /\ wlog' = wlog \o << <<"kpfpower", <<port, "LOCK">>, "Unlocked">>,
                                        <<"kpfpower", port, "On">> >>
             ELSE UNCHANGED <<kpfpower, wlog>>
    /\ Enter("post_condition")
    /\ rlog' = (IF Port(actargs) # None
                THEN rlog \o << <<"kpfpower", <<Port(actargs), "NAME">> >>,
                              <<"kpfpower", Port(actargs)>> >>
                ELSE rlog)
    /\ UNCHANGED <<seqvars, actargs, kpfexpose, kpfmot, waitvars, nStart>>

PowerOnCalSource_perform ==
    /\ act = "PowerOnCalSource" /\ ph = "perform"
    /\ LET port == Port(actargs)
       IN  IF port # None /\ kpfpower[port].power # "On"
             THEN /\ \E v \in Stored(kpfpower[port].power, "On") :
                        kpfpower' = [kpfpower EXCEPT
                                       ![port] = [power |-> v, LOCK |-> "Locked"]]
                  /\ wlog' = wlog \o << <<"kpfpower", <<port, "LOCK">>, "Unlocked">>,
                                        <<"kpfpower", port, "On">>,
                                        <<"kpfpower", <<port, "LOCK">>, "Locked">> >>
             ELSE UNCHANGED <<kpfpower, wlog>>
    /\ Enter("post_condition")
    /\ rlog' = (IF Port(actargs) # None
                THEN rlog \o << <<"kpfpower", <<Port(actargs), "NAME">> >>,
                              <<"kpfpower", Port(actargs)>> >>
                ELSE rlog)
    /\ UNCHANGED <<seqvars, actargs, kpfexpose, kpfmot, waitvars, nStart>>

PowerOnCalSource_post_condition ==
    /\ act = "PowerOnCalSource" /\ ph = "post_condition"
    /\ LET port == Port(actargs)
       IN  IF port # None /\ kpfpower[port].power # "On"
             THEN Raise("KPFError")
             ELSE Return
    /\ rlog' = (IF Port(actargs) # None
                THEN rlog \o << <<"kpfpower", <<Port(actargs), "NAME">> >>,
                              <<"kpfpower", Port(actargs)>> >>
                ELSE rlog)
    /\ UNCHANGED <<seqvars, actargs, devvars, waitvars, wlog, nStart>>

\* with a port, perform evaluates args.lamp on the dict args for its first
\* log line, which raises AttributeError before the first write
PowerOffCalSource_perform ==
    /\ act = "PowerOffCalSource" /\ ph = "perform"
    /\ IF Port(actargs) # None
         THEN Raise("AttributeError")
         ELSE Enter("post_condition")
    /\ rlog' = (IF Port(actargs) # None
                THEN Append(rlog, <<"kpfpower", <<Port(actargs), "NAME">> >>)
                ELSE rlog)
    /\ UNCHANGED <<seqvars, actargs, devvars, waitvars, wlog, nStart>>

PowerOffCalSource_post_condition ==
    /\ act = "PowerOffCalSource" /\ ph = "post_condition"
    /\ LET port == Port(actargs)
       IN  IF port # None /\ kpfpower[port].power # "Off"
             THEN Raise("KPFError")
             ELSE Return
    /\ rlog' = (IF Port(actargs) # None
                THEN rlog \o << <<"kpfpower", <<Port(actargs), "NAME">> >>,
                              <<"kpfpower", Port(actargs)>> >>
                ELSE rlog)
    /\ UNCHANGED <<seqvars, actargs, devvars, waitvars, wlog, nStart>>

(***************************************************************************)
(* SetCalSource                                                            *)
(***************************************************************************)
SetCalSource_perform ==
    /\ act = "SetCalSource" /\ ph = "perform"
    /\ IF Has(actargs, "OctagonSource")
         THEN /\ \E v \in Stored(kpfmot.OCTAGON, actargs.OctagonSource) :
                    kpfmot' = [kpfmot EXCEPT !.OCTAGON = v]
              /\ wlog' = Append(wlog, <<"kpfmot", "OCTAGON", actargs.OctagonSource>>)
         ELSE UNCHANGED <<kpfmot, wlog>>
    /\ Enter("post_condition")
    /\ UNCHANGED <<seqvars, actargs, kpfexpose, kpfpower, waitvars, rlog,
                   nStart>>

\* the read-back is compared with the target also when the target is None
SetCalSource_post_condition ==
    /\ act = "SetCalSource" /\ ph = "post_condition"
    /\ IF kpfmot.OCTAGON # Get(actargs, "OctagonSource", None)
         THEN Raise("KPFError")
         ELSE Return
    /\ rlog' = Append(rlog, <<"kpfmot", "OCTAGON">>)
    /\ UNCHANGED <<seqvars, actargs, devvars, waitvars, wlog, nStart>>

(***************************************************************************)
(* SetND1, SetND2                                                          *)
(***************************************************************************)
NDActions == {"SetND1", "SetND2"}

NDKey(a) == IF a = "SetND1" THEN "ND1" ELSE "ND2"

\* each Action on the other wheel's keyword
NDKeyword_swapped(a) == IF a = "SetND1" THEN "ND2POS" ELSE "ND1POS"

NDKeyword(a) == IF a = "SetND1" THEN "ND1POS" ELSE "ND2POS"

SetND_perform(a) ==
    /\ act = a /\ ph = "perform"
    /\ IF Has(actargs, NDKey(a))
         THEN /\ \E v \in Stored(kpfmot[NDKeyword(a)], actargs[NDKey(a)]) :
                    kpfmot' = [kpfmot EXCEPT ![NDKeyword(a)] = v]
              /\ wlog' = Append(wlog, <<"kpfmot", NDKeyword(a), actargs[NDKey(a)]>>)
         ELSE UNCHANGED <<kpfmot, wlog>>
    /\ Enter("post_condition")
    /\ UNCHANGED <<seqvars, actargs, kpfexpose, kpfpower, waitvars, rlog,
                   nStart>>

SetND_post_condition(a) ==
    /\ act = a /\ ph = "post_condition"
    /\ IF Has(actargs, NDKey(a)) /\ kpfmot[NDKeyword(a)] # actargs[NDKey(a)]
         THEN Raise("KPFError")
         ELSE Return
    /\ rlog' = (IF Has(actargs, NDKey(a))
                THEN Append(rlog, <<"kpfmot", NDKeyword(a)>>) ELSE rlog)
    /\ UNCHANGED <<seqvars, actargs, devvars, waitvars, wlog, nStart>>

(***************************************************************************)
(* SetTriggeredDetectors, SetSourceSelectShutters, SetTimedShutters        *)
(***************************************************************************)
SelectActions ==
    {"SetTriggeredDetectors", "SetSourceSelectShutters", "SetTimedShutters"}

SelectFlags(a) ==
    CASE a = "SetTriggeredDetectors" -> TriggerFlags
      [] a = "SetSourceSelectShutters" -> SSSFlags
      [] a = "SetTimedShutters" -> TSFlags

SelectKeyword(a) ==
    CASE a = "SetTriggeredDetectors" -> "TRIG_TARG"
      [] a = "SetSourceSelectShutters" -> "SRC_SHUTTERS"
      [] a = "SetTimedShutters" -> "TIMED_SHUTTERS"

\* the string is written whatever keys the entry has
Select_perform(a) ==
    /\ act = a /\ ph = "perform"
    /\ LET string == Join(FlagList(actargs, SelectFlags(a)))
       IN  /\ \E v \in Stored(kpfexpose[SelectKeyword(a)], string) :
                 kpfexpose' = [kpfexpose EXCEPT ![SelectKeyword(a)] = v]
           /\ wlog' = Append(wlog, <<"kpfexpose", SelectKeyword(a), string>>)
    /\ Enter("post_condition")
    /\ UNCHANGED <<seqvars, actargs, kpfmot, kpfpower, waitvars, rlog, nStart>>

Select_post_condition(a) ==
    /\ act = a /\ ph = "post_condition"
    /\ IF ~FlagsMatch(actargs, SelectFlags(a), kpfexpose[SelectKeyword(a)])
         THEN Raise("KPFError")
         ELSE Return
    /\ rlog' = Append(rlog, <<"kpfexpose", SelectKeyword(a)>>)
    /\ UNCHANGED <<seqvars, actargs, devvars, waitvars, wlog, nStart>>

(***************************************************************************)
(* A caller of one Action that calls execute twice in a row.               *)
(***************************************************************************)
execute_again ==
    /\ site = "again" /\ act = None
    /\ Call(call, actargs)
    /\ site' = "repeated"
    /\ UNCHANGED <<seqvars, error, devvars, nStart>>

(***************************************************************************)
(* RunCalSequence                                                          *)
(***************************************************************************)
callvars ==
    <<act, ph, actargs, wlog, rlog, phases, timeout, waited, seen, waitResult>>

RaiseRun(type) ==
    /\ site' = Unwind(site)
    /\ error' = [type |-> type, action |-> "RunCalSequence"]

\* the message of the FileNotFoundError is built from args.file, which the
\* argparse namespace (files, count, lampsoff, noexp) does not have
RunCalSequence_pre_condition ==
    /\ call = "RunCalSequence" /\ site = "pre_condition"
    /\ IF \A n \in DOMAIN args.files : args.files[n].exists
         THEN site' = "perform" /\ UNCHANGED error
         ELSE RaiseRun("AttributeError")
    /\ UNCHANGED <<seqvars, callvars, devvars, nStart>>

RunCalSequence_perform ==
    /\ site = "perform"
    /\ IF \A n \in DOMAIN sequences : Has(sequences[n], "OctagonSource")
         THEN /\ pending' = LampSet
              /\ site' = "for_lamp_on" /\ UNCHANGED error
         ELSE RaiseRun("KeyError") /\ UNCHANGED pending
    /\ UNCHANGED <<call, args, count, i, k, j, sequence, slept, log, powered,
                   callvars, devvars, nStart>>

\* one power-on per entry instead of one per distinct lamp
for_lamp_on_per_entry ==
    /\ site = "for_lamp_on" /\ act = None
    /\ IF Len(powered) >= Len(sequences)
         THEN /\ site' = "sleep"
              /\ UNCHANGED <<powered, callvars>>
         ELSE /\ Call("PowerOnCalSource",
                      [lamp |-> sequences[Len(powered) + 1].OctagonSource])
              /\ powered' = Append(powered, sequences[Len(powered) + 1].OctagonSource)
              /\ UNCHANGED site
    /\ UNCHANGED <<call, args, pending, count, i, k, j, sequence, slept, log,
                   error, devvars, nStart>>

for_lamp_on ==
    /\ site = "for_lamp_on" /\ act = None
    /\ IF pending = {}
         THEN /\ site' = "sleep"
              /\ UNCHANGED <<pending, powered, callvars>>
         ELSE /\ \E lamp \in pending :
                    /\ Call("PowerOnCalSource", [lamp |-> lamp])
                    /\ pending' = pending \ {lamp}
                    /\ powered' = Append(powered, lamp)
              /\ UNCHANGED site
    /\ UNCHANGED <<call, args, count, i, k, j, sequence, slept, log, error,
                   devvars, nStart>>

\* the sleep takes the first entry's WarmUp instead of the maximum
warm_up_first_entry ==
    /\ site = "sleep" /\ act = None
    /\ slept' = Append(slept, sequences[1].WarmUp)
    /\ site' = "for_sequence" /\ count' = 0 /\ i' = 0
    /\ UNCHANGED <<call, args, pending, k, j, sequence, log, powered, error,
                   callvars, devvars, nStart>>

warm_up ==
    /\ site = "sleep" /\ act = None
    /\ IF \A n \in DOMAIN sequences : Has(sequences[n], "WarmUp")
         THEN /\ slept' = Append(slept, Max({sequences[n].WarmUp :
                                               n \in DOMAIN sequences}))
              /\ site' = "for_sequence" /\ count' = 0 /\ i' = 0
              /\ UNCHANGED error
         ELSE RaiseRun("KeyError") /\ UNCHANGED <<slept, count, i>>
    /\ UNCHANGED <<call, args, pending, k, j, sequence, log, powered,
                   callvars, devvars, nStart>>

\* the entry loop without the repeat loop around it
for_sequence_single_repeat ==
    /\ site = "for_sequence" /\ act = None
    /\ IF i < Len(sequences)
         THEN /\ i' = i + 1 /\ count' = count
              /\ sequence' = sequences[i + 1]
              /\ site' = "chain" /\ k' = 1 /\ log' = <<>>
         ELSE /\ site' = "if_lampsoff"
              /\ UNCHANGED <<i, count, sequence, k, log>>
    /\ UNCHANGED <<call, args, pending, j, slept, powered, error, callvars,
                   devvars, nStart>>

\* for count in range(0, args.count): for i, sequence in enumerate(sequences)
for_sequence ==
    /\ site = "for_sequence" /\ act = None
    /\ IF i < Len(sequences)
         THEN /\ i' = i + 1 /\ count' = count
              /\ sequence' = sequences[i + 1]
              /\ site' = "chain" /\ k' = 1 /\ log' = <<>>
         ELSE IF count + 1 < args.count
         THEN /\ i' = 1 /\ count' = count + 1
              /\ sequence' = sequences[1]
              /\ site' = "chain" /\ k' = 1 /\ log' = <<>>
         ELSE /\ site' = "if_lampsoff"
              /\ UNCHANGED <<i, count, sequence, k, log>>
    /\ UNCHANGED <<call, args, pending, j, slept, powered, error, callvars,
                   devvars, nStart>>

\* the eight executes from SetCalSource to SetTriggeredDetectors, then
\* nexp = sequence.get('nExp', 1)
chain ==
    /\ site = "chain" /\ act = None
    /\ Call(ChainActions[k], sequence)
    /\ log' = Append(log, ChainActions[k])
    /\ IF k < Len(ChainActions)
         THEN k' = k + 1 /\ UNCHANGED <<site, j>>
         ELSE site' = "for_nexp" /\ j' = 0 /\ UNCHANGED k
    /\ UNCHANGED <<call, args, pending, count, i, sequence, slept, powered,
                   error, devvars, nStart>>

\* the exposure loop without nExp: one iteration for every entry
for_nexp_once ==
    /\ site = "for_nexp" /\ act = None
    /\ IF j < 1
         THEN j' = j + 1 /\ k' = 1 /\ site' = "exposure"
         ELSE site' = "for_sequence" /\ UNCHANGED <<j, k>>
    /\ UNCHANGED <<call, args, pending, count, i, sequence, slept, log,
                   powered, error, callvars, devvars, nStart>>

for_nexp ==
    /\ site = "for_nexp" /\ act = None
    /\ IF j < Get(sequence, "nExp", 1)
         THEN j' = j + 1 /\ k' = 1 /\ site' = "exposure"
         ELSE site' = "for_sequence" /\ UNCHANGED <<j, k>>
    /\ UNCHANGED <<call, args, pending, count, i, sequence, slept, log,
                   powered, error, callvars, devvars, nStart>>

\* WaitForReady; StartExposure and WaitForReadout `if args.noexp is False`
exposure ==
    /\ site = "exposure" /\ act = None
    /\ IF ExposureActions[k] = "WaitForReady" \/ args.noexp = FALSE
         THEN /\ Call(ExposureActions[k], sequence)
              /\ log' = Append(log, ExposureActions[k])
         ELSE UNCHANGED <<callvars, log>>
    /\ IF k < Len(ExposureActions)
         THEN k' = k + 1 /\ UNCHANGED site
         ELSE site' = "for_nexp" /\ UNCHANGED k
    /\ UNCHANGED <<call, args, pending, count, i, j, sequence, slept, powered,
                   error, devvars, nStart>>

\* the lamp-off loop entered whatever the flag says
if_lampsoff_always ==
    /\ site = "if_lampsoff" /\ act = None
    /\ pending' = LampSet /\ site' = "for_lamp_off"
    /\ UNCHANGED <<call, args, count, i, k, j, sequence, slept, log, powered,
                   error, callvars, devvars, nStart>>

if_lampsoff ==
    /\ site = "if_lampsoff" /\ act = None
    /\ IF args.lampsoff = TRUE
         THEN pending' = LampSet /\ site' = "for_lamp_off"
         ELSE site' = "final" /\ UNCHANGED pending
    /\ UNCHANGED <<call, args, count, i, k, j, sequence, slept, log, powered,
                   error, callvars, devvars, nStart>>

for_lamp_off ==
    /\ site = "for_lamp_off" /\ act = None
    /\ IF pending = {}
         THEN /\ site' = "final"
              /\ UNCHANGED <<pending, callvars>>
         ELSE /\ \E lamp \in pending :
                    /\ Call("PowerOffCalSource", [lamp |-> lamp])
                    /\ pending' = pending \ {lamp}
              /\ UNCHANGED site
    /\ UNCHANGED <<call, args, count, i, k, j, sequence, slept, log, powered,
                   error, devvars, nStart>>

\* the last statement of perform: WaitForReady on the loop variable `sequence`
final ==
    /\ site = "final" /\ act = None
    /\ Call("WaitForReady", sequence)
    /\ site' = "post_condition"
    /\ UNCHANGED <<call, args, pending, count, i, k, j, sequence, slept, log,
                   powered, error, devvars, nStart>>

RunCalSequence_post_condition ==
    /\ site = "post_condition" /\ act = None
    /\ IF kpfexpose.EXPOSE # "Ready"
         THEN RaiseRun("KPFError")
         ELSE site' = "done" /\ UNCHANGED error
    /\ UNCHANGED <<seqvars, callvars, devvars, nStart>>

Next ==
    \/ DetectorStep
    \/ pre_condition
    \/ waitFor_tick
    \/ waitFor_return
    \/ SetExptime_perform
    \/ SetExptime_post_condition
    \/ StartExposure_perform
    \/ StartExposure_write
    \/ StartExposure_post_condition
    \/ \E a \in WaitActions : Wait_perform(a)
    \/ \E a \in WaitActions : Wait_post_condition(a)
    \/ PowerOnCalSource_perform
    \/ PowerOnCalSource_post_condition
    \/ PowerOffCalSource_perform
    \/ PowerOffCalSource_post_condition
    \/ SetCalSource_perform
    \/ SetCalSource_post_condition
    \/ \E a \in NDActions : SetND_perform(a)
    \/ \E a \in NDActions : SetND_post_condition(a)
    \/ \E a \in SelectActions : Select_perform(a)
    \/ \E a \in SelectActions : Select_post_condition(a)
    \/ execute_again
    \/ RunCalSequence_pre_condition
    \/ RunCalSequence_perform
    \/ for_lamp_on
    \/ warm_up
    \/ for_sequence
    \/ chain
    \/ for_nexp
    \/ exposure
    \/ if_lampsoff
    \/ for_lamp_off
    \/ final
    \/ RunCalSequence_post_condition

Spec == Init /\ [][Next]_vars

(***************************************************************************)
(* The engine is one thread that runs whenever it can: every statement     *)
(* reached is executed, and the clock of a waitFor and of sleep advances.  *)
(* Nothing is assumed of the device: the detector may stay where it is.    *)
(***************************************************************************)
EngineStep == Next /\ ~DetectorStep

FairSpec == Spec /\ WF_vars(EngineStep)

(***************************************************************************)
(* Properties                                                              *)
(***************************************************************************)
IsPrefix(s, t) == Len(s) <= Len(t) /\ s = SubSeq(t, 1, Len(s))

RECURSIVE Times(_, _)
Times(n, s) == IF n <= 0 THEN <<>> ELSE s \o Times(n - 1, s)

Count(s, x) == Cardinality({n \in DOMAIN s : s[n] = x})

IsRun == call = "RunCalSequence"

\* the current entry has run through: the last iteration of its exposure
\* loop has returned
EntryDone ==
    /\ IsRun /\ site = "for_nexp" /\ act = None /\ error = NoError
    /\ j = Get(sequence, "nExp", 1)

\* C1: once an Action's execute has failed, the run executes no further
\* Action and issues no further device write.
C1_AbortOnFailure ==
    [][error # NoError =>
          /\ act' = None /\ log' = log /\ wlog' = wlog /\ nStart' = nStart
          /\ devvars' = devvars]_vars

C1_Witness ==
    /\ IsRun /\ site = "failed" /\ error.action = "SetND1"
    /\ count = 1 /\ i = 2
    /\ kpfmot.ND1POS # sequence.ND1
    /\ Len(log) = 4

\* C2 as stated: an entry that ran through executed the 7-step chain and
\* then nExp times WaitForReady, StartExposure, WaitForReadout, nothing else.
C2_SevenStepChainOnly ==
    EntryDone =>
        log = <<"SetCalSource", "SetSourceSelectShutters", "SetTimedShutters",
                "SetND1", "SetND2", "SetExptime", "WaitForReady">>
              \o Times(Get(sequence, "nExp", 1),
                       <<"WaitForReady", "StartExposure", "WaitForReadout">>)

EntryExpected ==
    <<"SetCalSource", "SetSourceSelectShutters", "SetTimedShutters",
      "SetND1", "SetND2", "SetExptime", "WaitForReady",
      "SetTriggeredDetectors">>
    \o Times(Get(sequence, "nExp", 1),
             IF args.noexp
               THEN <<"WaitForReady">>
               ELSE <<"WaitForReady", "StartExposure", "WaitForReadout">>)

\* C2 amended: for each repeat and each entry in file order, the Actions
\* executed are the 7-step chain, then SetTriggeredDetectors, then nExp times
\* WaitForReady, StartExposure, WaitForReadout (the last two only without the
\* dry-run flag), in that order and with nothing in between; a failure cuts
\* the sequence short.
C2_EntrySequence ==
    (IsRun /\ site \in {"chain", "for_nexp", "exposure"}) =>
        /\ count \in 0..(args.count - 1)
        /\ i \in DOMAIN sequences /\ sequence = sequences[i]
        /\ IsPrefix(log, EntryExpected)
        /\ EntryDone => log = EntryExpected

C2_Witness ==
    /\ EntryDone /\ count = 1 /\ i = 2
    /\ ~args.noexp /\ Get(sequence, "nExp", 1) = 2
    /\ Len(log) = 14

\* C3: SetExptime.execute with Exptime = t never returns successfully while
\* kpfexpose.EXPOSURE differs from t by more than 0.1 s.
C3_ExptimeVerified ==
    [][(act = "SetExptime" /\ Has(actargs, "Exptime")
          /\ act' = None /\ error' = NoError) =>
            Abs(kpfexpose'.EXPOSURE - actargs.Exptime) <= ExptimeTolerance]_vars

\* C4: an Action with a target key executed on an entry without that key
\* issues no device write and does not fail.
TargetActions ==
    {"SetExptime", "SetCalSource", "SetND1", "SetND2", "PowerOnCalSource",
     "PowerOffCalSource"} \cup SelectActions

C4_AbsentKeyNoOp ==
    [][(act \in TargetActions /\ actargs = EmptyEntry) =>
            (wlog' = <<>> /\ error' = NoError)]_vars

\* C5: StartExposure never writes Start when its wait for the detector to
\* become idle timed out with the detector still busy.
C5_NoStartAfterTimeout ==
    [][(act = "StartExposure" /\ waitResult = "False"
          /\ kpfexpose.EXPOSE # "Ready") => nStart' = nStart]_vars

\* C6: WaitForReadout.execute succeeds whenever EXPOSE reported Readout
\* before the timeout, whatever the detector does afterwards.
C6_ReadoutSeenSucceeds ==
    [][(act = "WaitForReadout" /\ waitResult = "True") => error' = NoError]_vars

\* C7: WaitForReadout.execute never returns successfully after its wait
\* timed out.
C7_ReadoutTimeoutFails ==
    [][(act = "WaitForReadout" /\ waitResult = "False" /\ act' = None) =>
            error' # NoError]_vars

\* C8: PowerOffCalSource on a lamp with an outlet writes LOCK=Unlocked,
\* outlet=Off, LOCK=Locked in that order and goes on to verify the outlet,
\* so that the run with the power-lamps-off flag completes.
C8_PowerOffWrites ==
    [][(act = "PowerOffCalSource" /\ ph = "perform" /\ Port(actargs) # None) =>
          /\ wlog' = << <<"kpfpower", <<Port(actargs), "LOCK">>, "Unlocked">>,
                        <<"kpfpower", Port(actargs), "Off">>,
                        <<"kpfpower", <<Port(actargs), "LOCK">>, "Locked">> >>
          /\ ph' = "post_condition" /\ error' = NoError]_vars

\* C9: a dry run over one entry with count = 1 executes nExp WaitForReady
\* cycles in the exposure loop, writes no Start, waits for no readout, and
\* fails only if a verification fails.
C9_DryRun ==
    (IsRun /\ args.noexp /\ Len(args.files) = 1 /\ args.count = 1) =>
        /\ nStart = 0
        /\ act # "WaitForReadout" /\ act # "StartExposure"
        /\ EntryDone => Count(SubSeq(log, 9, Len(log)), "WaitForReady")
                          = Get(sequence, "nExp", 1)
        /\ (error # NoError /\ args.files[1].exists) => error.type = "KPFError"

\* C10: PowerOnCalSource is executed once for each distinct lamp of the
\* entries, and all of them before the warm-up sleep and before the first
\* configuration step.
C10_PowerOnOncePerLamp ==
    IsRun =>
        /\ \A n, m \in DOMAIN powered : powered[n] = powered[m] => n = m
        /\ Range(powered) \subseteq LampSet
        /\ act = "PowerOnCalSource" =>
              (site = "for_lamp_on" /\ slept = <<>> /\ log = <<>>)
        /\ (slept # <<>> \/ log # <<>>) => Range(powered) = LampSet

C10_Witness ==
    /\ IsRun /\ Len(sequences) = 2 /\ Cardinality(LampSet) = 1
    /\ slept # <<>> /\ Len(powered) = 1 /\ log # <<>>

\* the statements of RunCalSequence.perform before sleep(warm_up_time)
BeforeSleep == {"pre_condition", "perform", "for_lamp_on", "sleep"}

\* C11: a run sleeps at most once, and exactly once before anything of the
\* entry loop runs; the duration is the maximum WarmUp over all entries; the
\* sleep comes after the return of the last PowerOnCalSource and before the
\* first SetCalSource, and no entry and no repeat adds a sleep.
C11_SingleWarmUp ==
    IsRun =>
        /\ Len(slept) <= 1
        /\ site \in BeforeSleep => (slept = <<>> /\ log = <<>>)
        /\ site \notin BeforeSleep \cup {"failed"} => Len(slept) = 1
        /\ (log # <<>> \/ act \in EntryActions \cup {"PowerOffCalSource"}) =>
              Len(slept) = 1
        /\ act = "PowerOnCalSource" => slept = <<>>
        /\ slept # <<>> =>
              /\ \E n \in DOMAIN sequences : slept[1] = sequences[n].WarmUp
              /\ \A n \in DOMAIN sequences : slept[1] >= sequences[n].WarmUp
              /\ Range(powered) = LampSet

C11_Witness ==
    /\ IsRun /\ site = "done" /\ args.count = 2
    /\ Len(sequences) = 2
    /\ sequences[1].WarmUp = 30 /\ sequences[2].WarmUp = 45
    /\ Len(powered) = 2 /\ slept = <<45>>

\* C12: when PowerOnCalSource.execute is called a second time in a row on
\* the same lamp and the outlet reads On, the second call writes neither the
\* outlet nor its LOCK keyword, leaves kpfpower as it is, and does not fail.
C12_PowerOnIdempotent ==
    [][(/\ call = "PowerOnCalSource" /\ site = "repeated"
        /\ Port(actargs) # None /\ kpfpower[Port(actargs)].power = "On") =>
            (wlog' = <<>> /\ kpfpower' = kpfpower /\ error' = NoError)]_vars

C12_Witness ==
    /\ call = "PowerOnCalSource" /\ site = "repeated" /\ act = None
    /\ Port(actargs) = "OUTLET_CAL2_7"
    /\ kpfpower["OUTLET_CAL2_7"].power = "On"
    /\ phases = <<"pre_condition", "perform", "post_condition">>
    /\ Len(rlog) = 4 /\ wlog = <<>> /\ error = NoError

\* the names of the flags the entry sets to True
Requested(a, flags) ==
    {flags[n][2] : n \in {m \in DOMAIN flags : Get(a, flags[m][1], FALSE) = TRUE}}

\* the names a comma-joined string lists
Listed(string) == {tok[1] : tok \in {t \in Range(Split(string)) : Len(t) = 1}}

\* C13: for the three multi-select Actions and every subset of flags set to
\* True (the others False or absent): the string perform wrote lists exactly
\* the names of that subset; post_condition passes when the device holds
\* that string unchanged; and it fails exactly when, for some flag, being
\* listed in the string read back differs from the requested value.
C13_FlagRoundTrip ==
    [][(act \in SelectActions /\ ph = "post_condition" /\ act' = None) =>
          LET flags    == SelectFlags(act)
              written  == wlog[Len(wlog)][3]
              readback == kpfexpose[SelectKeyword(act)]
              names    == {flags[n][2] : n \in DOMAIN flags}
          IN  /\ Len(wlog) = 1
              /\ Listed(written) = Requested(actargs, flags)
              /\ \A t \in Range(Split(written)) : Len(t) = 1 \/ written = <<>>
              /\ readback = written => error' = NoError
              /\ error' # NoError <=>
                    Listed(readback) \cap names # Requested(actargs, flags)]_vars

C13_Witness ==
    /\ call = "SetSourceSelectShutters" /\ act = None /\ error = NoError
    /\ actargs = FlagEntry(SSSFlags, {1, 3, 5}, FALSE)
    /\ kpfexpose.SRC_SHUTTERS =
          <<"SciSelect", ",", "SoCalSci", ",", "Cal_SciSky">>
    /\ phases = <<"pre_condition", "perform", "post_condition">>

SomeFileMissing == \E n \in DOMAIN args.files : ~args.files[n].exists

\* no execute of an Action was called: no keyword was read, written or
\* waited for
NoDeviceInteraction ==
    /\ act = None /\ phases = <<>> /\ rlog = <<>> /\ wlog = <<>>
    /\ timeout = 0 /\ powered = <<>> /\ log = <<>> /\ nStart = 0

\* C14: with a missing input file the run fails with a file-not-found error,
\* before any device read, write or wait.
C14_MissingFileError ==
    (IsRun /\ SomeFileMissing) =>
        /\ site \in {"pre_condition", "failed"}
        /\ NoDeviceInteraction
        /\ site = "failed" =>
              (error.type = "FileNotFoundError"
                 /\ error.action = "RunCalSequence")

ExecutePhases == <<"pre_condition", "perform", "post_condition">>

\* C15: an execute enters pre_condition, perform and post_condition in that
\* order and each at most once; an execute that returns has run all three;
\* one that fails stops in the phase that failed, and the failure ends the
\* caller too.  RunCalSequence.execute goes from pre_condition to perform and
\* from the end of perform to post_condition, and nowhere after a failure.
C15_PhaseOrder ==
    [][/\ IsPrefix(phases', ExecutePhases)
       /\ (act # None /\ ph \notin {"pre_condition", "post_condition"}) =>
             phases = <<"pre_condition", "perform">>
       /\ (act # None /\ ph \in {"pre_condition", "post_condition"}) =>
             phases[Len(phases)] = ph
       /\ (act # None /\ act' = None) =>
             IF error' = NoError
               THEN phases' = ExecutePhases /\ ph = "post_condition"
               ELSE /\ phases' = phases /\ error'.action = act
                    /\ site' = "failed"
       /\ (IsRun /\ site' # site) =>
             /\ site' = "perform" => site = "pre_condition"
             /\ site' = "post_condition" => site = "final"
             /\ site' = "done" => site = "post_condition"
             /\ site # "failed"
       /\ error # NoError => (act' = None /\ phases' = phases /\ site' = site)
      ]_vars

C15_Witness ==
    /\ IsRun /\ site = "failed" /\ error.action = "PowerOffCalSource"
    /\ phases = <<"pre_condition", "perform">>

\* C16: a run ends without error only through the read of kpfexpose.EXPOSE
\* in RunCalSequence.post_condition returning Ready, and that read comes
\* after the last entry of the last repeat, after the lamp power-off loop
\* (when requested) and after the final WaitForReady; a read of anything
\* else ends the run in an error.
C16_FinalReady ==
    [][IsRun =>
         /\ (site' = "done" /\ site # "done") =>
               /\ site = "post_condition" /\ act = None
               /\ kpfexpose.EXPOSE = "Ready" /\ error' = NoError
               /\ count = args.count - 1 /\ i = Len(sequences)
               /\ j = Get(sequence, "nExp", 1)
               /\ pending = {}
               /\ phases = ExecutePhases
               /\ rlog[Len(rlog)] = <<"kpfexpose", "EXPOSE">>
         /\ (site = "post_condition" /\ act = None /\ site' # site
                /\ kpfexpose.EXPOSE # "Ready") =>
               (site' = "failed" /\ error'.type = "KPFError")
         /\ site = "done" => (error = NoError /\ kpfexpose.EXPOSE = "Ready")
      ]_vars

C16_Witness ==
    /\ IsRun /\ site = "done" /\ error = NoError
    /\ args.count = 2 /\ Len(sequences) = 2 /\ ~args.noexp /\ args.lampsoff
    /\ nStart > 0 /\ kpfexpose.EXPOSE = "Ready"

\* C17: a run that has failed has stopped for good, without rollback: it is
\* at no statement and in no Action, the failing Action wrote no Off, and
\* every outlet whose PowerOnCalSource returned is still On, whether or not
\* the power-lamps-off flag is set.
C17_NoRollback ==
    (IsRun /\ error # NoError) =>
        /\ site = "failed" /\ act = None
        /\ \A n \in DOMAIN wlog : wlog[n][3] # "Off"
        /\ \A n \in DOMAIN powered :
              LET port == Port([lamp |-> powered[n]])
              IN  (port # None
                     /\ (n < Len(powered) \/ error.action # "PowerOnCalSource"))
                    => kpfpower[port].power = "On"

C17_Witness ==
    /\ IsRun /\ site = "failed" /\ args.lampsoff
    /\ error.action = "WaitForReadout"
    /\ powered = <<"U_gold">> /\ kpfpower["OUTLET_CAL2_7"].power = "On"
    /\ nStart = 1

\* C18: every write the engine issues to kpfexpose.EXPOSE has the value
\* Start and comes from StartExposure; any other change of EXPOSE is a step
\* of the detector's own cycle, during which the engine writes nothing.
C18_OnlyStartWritten ==
    [][/\ \A n \in DOMAIN wlog' :
             (wlog'[n][1] = "kpfexpose" /\ wlog'[n][2] = "EXPOSE") =>
                 /\ wlog'[n][3] = "Start"
                 /\ wlog' # wlog => (act = "StartExposure" /\ nStart' # nStart)
       /\ nStart' # nStart =>
             /\ act = "StartExposure" /\ nStart' = nStart + 1
             /\ wlog' = Append(wlog, <<"kpfexpose", "EXPOSE", "Start">>)
             /\ kpfexpose'.EXPOSE \in {"Start", kpfexpose.EXPOSE}
       /\ (kpfexpose'.EXPOSE # kpfexpose.EXPOSE /\ nStart' = nStart) =>
             /\ wlog' = wlog
             /\ <<kpfexpose.EXPOSE, kpfexpose'.EXPOSE>> \in
                   {<<"Start", "InProgress">>, <<"InProgress", "End">>,
                    <<"End", "Readout">>, <<"Readout", "Ready">>}
      ]_vars

C18_Witness ==
    /\ IsRun /\ nStart = 2
    /\ act = "WaitForReadout" /\ ph = "post_condition" /\ waitResult = "True"
    /\ kpfexpose.EXPOSE = "Readout"

\* the lamps the classes' docstrings say the mapping handles
HandledLamps == {"U_gold", "U_daily", "Th_daily", "Th_gold", "BrdbandFiber"}

\* C19: PowerOnCalSource.execute and PowerOffCalSource.execute on a lamp
\* without an outlet (EtalonFiber, SoCal-CalFib, LFCFiber, a lamp the map does
\* not have, or no lamp) read and write no keyword, leave kpfpower as it is
\* and do not fail.
C19_NoOutletNoOp ==
    [][(act \in PowerActions /\ Get(actargs, "lamp", None) \notin HandledLamps) =>
          /\ rlog' = <<>> /\ wlog' = <<>> /\ kpfpower' = kpfpower
          /\ error' = NoError
          /\ act' = None => phases' = ExecutePhases]_vars

C19_Witness ==
    /\ call = "PowerOffCalSource" /\ act = None /\ error = NoError
    /\ actargs = [lamp |-> "SoCal-CalFib"]
    /\ phases = ExecutePhases /\ rlog = <<>> /\ wlog = <<>>

Terminated == act = None /\ site \in {"done", "repeated", "failed"}

\* C20: every run ends, in normal completion or in an error, whatever the
\* device does: a waitFor never waits beyond its timeout (300 s in
\* StartExposure, 60 s in WaitForReady, exposure time + 10 s in
\* WaitForReadout), and the loop counters stay within count, the number of
\* entries and nExp.
C20_Terminates ==
    /\ [](ph = "waitFor" =>
            /\ waited <= timeout
            /\ timeout = CASE act = "StartExposure" -> Seconds(300)
                            [] act = "WaitForReady" -> Seconds(60)
                            [] act = "WaitForReadout" ->
                                 kpfexpose.EXPOSURE + Seconds(10))
    /\ [](IsRun => /\ count < args.count /\ i <= Len(sequences)
                   /\ site \in {"for_nexp", "exposure"} =>
                         j <= Get(sequence, "nExp", 1))
    /\ <>Terminated

C20_Witness ==
    /\ IsRun /\ Terminated /\ site = "failed"
    /\ error.action = "WaitForReady" /\ waitResult = "False"
    /\ waited = timeout /\ timeout = Seconds(60) /\ nStart = 1

\* C21: StartExposure.execute, having written Start, returns successfully
\* exactly when the exposure time read from the device is at most 0.1 s or
\* the value of EXPOSE read after the write is Start, InProgress, End or
\* Readout; with a longer exposure time and the detector back at Ready (or
\* never having left it) it fails.
C21_StartVerified ==
    [][(act = "StartExposure" /\ ph = "post_condition" /\ act' = None) =>
          /\ wlog = << <<"kpfexpose", "EXPOSE", "Start">> >>
          /\ error' = NoError <=>
                \/ kpfexpose.EXPOSURE <= 1
                \/ kpfexpose.EXPOSE \in Busy
          /\ error' # NoError =>
                (error' = [type |-> "KPFError", action |-> "StartExposure"]
                   /\ kpfexpose.EXPOSE = "Ready")]_vars

C21_Witness ==
    /\ call = "StartExposure" /\ site = "failed" /\ act = None
    /\ error = [type |-> "KPFError", action |-> "StartExposure"]
    /\ kpfexpose.EXPOSURE = 2 /\ kpfexpose.EXPOSE = "Ready"
    /\ waitResult = "True" /\ nStart = 1

\* a step of the execute of Action a, whose target is the entry's key and
\* whose wheel is keyword, the other wheel being other
NDStep(a, key, keyword, other) ==
    act = a =>
        /\ kpfmot'[other] = kpfmot[other] /\ kpfmot'.OCTAGON = kpfmot.OCTAGON
        /\ \A n \in DOMAIN wlog' : wlog'[n][2] # other
        /\ \A n \in DOMAIN rlog' : rlog'[n][2] # other
        /\ IF key \in DOMAIN actargs
             THEN /\ (ph = "perform" /\ ph' # ph) =>
                        wlog' = << <<"kpfmot", keyword, actargs[key]>> >>
                  /\ ph # "perform" => wlog' = wlog
                  /\ kpfmot'[keyword] \in {kpfmot[keyword], actargs[key]}
                  /\ (act' = None /\ error' = NoError) =>
                        /\ kpfmot[keyword] = actargs[key]
                        /\ wlog = << <<"kpfmot", keyword, actargs[key]>> >>
                        /\ rlog' = << <<"kpfmot", keyword>> >>
                  /\ (act' = None /\ error' # NoError) =>
                        kpfmot[keyword] # actargs[key]
             ELSE /\ wlog' = <<>> /\ rlog' = <<>> /\ kpfmot' = kpfmot
                  /\ error' = NoError

\* C22: SetND1 with a target writes it to kpfmot.ND1POS and returns
\* successfully only when the value read back equals it (and fails
\* otherwise); without a target it writes nothing, reads nothing and does not
\* fail; it never writes or reads ND2POS.  The same for SetND2 with ND2POS
\* and ND1POS exchanged.
C22_NDWheels ==
    [][/\ NDStep("SetND1", "ND1", "ND1POS", "ND2POS")
       /\ NDStep("SetND2", "ND2", "ND2POS", "ND1POS")]_vars

C22_Witness ==
    /\ call = "SetND2" /\ act = None /\ error = NoError
    /\ actargs = EntryB
    /\ kpfmot.ND2POS = "OD 2.0" /\ kpfmot.ND1POS = "OD 0.1"
    /\ wlog = << <<"kpfmot", "ND2POS", "OD 2.0">> >>
    /\ rlog = << <<"kpfmot", "ND2POS">> >>

RECURSIVE SumNExp(_)
SumNExp(s) == IF s = <<>> THEN 0
              ELSE Get(Head(s), "nExp", 1) + SumNExp(Tail(s))

\* the exposures of the repeats and entries before the current one
StartsBefore ==
    count * SumNExp(sequences) + SumNExp(SubSeq(sequences, 1, i - 1))

\* StartExposure is running and has not written yet
StartPending ==
    act = "StartExposure" /\ ph \in {"pre_condition", "perform", "waitFor", "write"}

\* C23: in a run without the dry-run flag and without error, the Start
\* writes number one per exposure reached, hence count times the sum of nExp
\* once the loops are left; each StartExposure directly follows a WaitForReady
\* that returned with the detector Ready, and is directly followed by a
\* WaitForReadout, which has returned before the next WaitForReady begins.
C23_StartCount ==
    (IsRun /\ ~args.noexp /\ error = NoError) =>
        /\ site \in {"chain", "for_nexp", "exposure"} =>
              nStart = StartsBefore + Count(log, "StartExposure")
                         - (IF StartPending THEN 1 ELSE 0)
        /\ site \in {"if_lampsoff", "for_lamp_off", "final", "post_condition",
                      "done"} =>
              nStart = args.count * SumNExp(sequences)
        /\ site \in {"pre_condition", "perform", "for_lamp_on", "sleep"} =>
              nStart = 0
        /\ \A n \in DOMAIN log : log[n] = "StartExposure" =>
              /\ n > 1 /\ log[n - 1] = "WaitForReady"
              /\ n < Len(log) => log[n + 1] = "WaitForReadout"
        /\ (act = "StartExposure" /\ ph \in {"pre_condition", "perform", "write"}) =>
              kpfexpose.EXPOSE = "Ready"
        /\ (act = "StartExposure" /\ ph = "post_condition") =>
              wlog = << <<"kpfexpose", "EXPOSE", "Start">> >>
        /\ (site = "for_nexp" /\ act = None /\ j >= 1) =>
              log[Len(log)] = "WaitForReadout"

C23_Witness ==
    /\ IsRun /\ site = "done" /\ error = NoError /\ ~args.noexp
    /\ args.count = 2 /\ Len(sequences) = 2
    /\ SumNExp(sequences) = 3 /\ nStart = 6

\* both loops of perform are over: the last entry of the last repeat has run
\* through all its exposures
LoopsOver ==
    /\ count = args.count - 1 /\ i = Len(sequences)
    /\ sequence = sequences[i] /\ j = Get(sequence, "nExp", 1)
    /\ log = EntryExpected
    /\ ~args.noexp => nStart = args.count * SumNExp(sequences)

\* C24: in a run, PowerOffCalSource is executed only with the
\* power-lamps-off flag set, only once the last entry of the last repeat has
\* run through its exposures without error, and never once the final
\* WaitForReady has been reached; with the flag unset no write of Off is
\* issued and no outlet changes to Off.
C24_LampsOffLast ==
    [][IsRun =>
          /\ act' = "PowerOffCalSource" =>
                /\ args.lampsoff /\ site' = "for_lamp_off"
                /\ error = NoError /\ LoopsOver
                /\ actargs'.lamp \in LampSet
          /\ site \in {"final", "post_condition", "done", "failed"} =>
                /\ act' # "PowerOffCalSource"
                /\ site' \notin {"if_lampsoff", "for_lamp_off"}
          /\ ~args.lampsoff =>
                /\ \A n \in DOMAIN wlog' :
                      wlog'[n][1] = "kpfpower" => wlog'[n][3] # "Off"
                /\ \A o \in Outlets :
                      kpfpower'[o].power = "Off" => kpfpower[o].power = "Off"]_vars

C24_Witness ==
    /\ IsRun /\ args.lampsoff /\ ~args.noexp /\ error = NoError
    /\ act = "PowerOffCalSource" /\ ph = "perform" /\ Port(actargs) # None
    /\ args.count = 2 /\ Len(sequences) = 2 /\ LoopsOver /\ nStart = 6
    /\ Cardinality(pending) = 1

\* a logged write of an outlet's power state, and of an outlet's LOCK keyword
IsPowerWrite(e) == e[1] = "kpfpower" /\ e[3] \in {"On", "Off"}

IsLockWrite(e, o) ==
    e[1] = "kpfpower" /\ e[3] \in {"Unlocked", "Locked"} /\ e[2] = <<o, "LOCK">>

\* C25: every write of an outlet's power state directly follows a write of
\* Unlocked and directly precedes a write of Locked to that outlet's LOCK
\* keyword; once a PowerOnCalSource or PowerOffCalSource perform has
\* returned, the last write to each LOCK keyword, if any, is Locked, and so
\* is the keyword.
C25_LockDiscipline ==
    /\ \A n \in DOMAIN wlog : IsPowerWrite(wlog[n]) =>
          /\ n > 1 /\ n < Len(wlog)
          /\ wlog[n - 1] = <<"kpfpower", <<wlog[n][2], "LOCK">>, "Unlocked">>
          /\ wlog[n + 1] = <<"kpfpower", <<wlog[n][2], "LOCK">>, "Locked">>
    /\ (act \in PowerActions => ph # "perform") =>
          \A o \in Outlets :
              LET L == {n \in DOMAIN wlog : IsLockWrite(wlog[n], o)}
              IN  /\ L # {} => wlog[Max(L)][3] = "Locked"
                  /\ kpfpower[o].LOCK = "Locked"

C25_Witness ==
    /\ call = "PowerOnCalSource" /\ act = None /\ error = NoError
    /\ Port(actargs) = "OUTLET_CAL2_7"
    /\ wlog = << <<"kpfpower", <<"OUTLET_CAL2_7", "LOCK">>, "Unlocked">>,
                 <<"kpfpower", "OUTLET_CAL2_7", "On">>,
                 <<"kpfpower", <<"OUTLET_CAL2_7", "LOCK">>, "Locked">> >>
    /\ kpfpower["OUTLET_CAL2_7"].power = "On"

\* the positions of an Action in the log of the current entry
Positions(a) == {n \in DOMAIN log : log[n] = a}

\* C26: in every repeat and for every entry, SetTriggeredDetectors is
\* executed on that entry once, before its first StartExposure; it writes the
\* string of the entry's trigger flags to TRIG_TARG, and throughout the
\* entry's exposure loop TRIG_TARG holds a selection that matches the
\* entry's flags.
C26_TriggerBeforeStart ==
    IsRun =>
        /\ act = "SetTriggeredDetectors" =>
              /\ actargs = sequence /\ site \in {"chain", "for_nexp"}
              /\ nStart = (IF args.noexp THEN 0 ELSE StartsBefore)
              /\ ph = "post_condition" =>
                    wlog = << <<"kpfexpose", "TRIG_TARG",
                                Join(FlagList(sequence, TriggerFlags))>> >>
        /\ (site \in {"for_nexp", "exposure"} /\ error = NoError) =>
              /\ Cardinality(Positions("SetTriggeredDetectors")) = 1
              /\ \A n \in Positions("StartExposure") :
                    \A m \in Positions("SetTriggeredDetectors") : m < n
              /\ act # "SetTriggeredDetectors" =>
                    FlagsMatch(sequence, TriggerFlags, kpfexpose.TRIG_TARG)

C26_Witness ==
    /\ IsRun /\ error = NoError /\ act = "StartExposure" /\ ph = "write"
    /\ count = 1 /\ i = 1 /\ j = 1
    /\ sequences = <<EntryA, EntryB>>
    /\ kpfexpose.TRIG_TARG = <<"Red", ",", "Green">>
    /\ nStart = 3

=============================================================================
